---- MODULE Spec2Model ----
(***************************************************************************)
(* A model of the AVM URLADER parser (src/parser.py).                      *)
(*                                                                         *)
(* The image is the sequence of the file's bytes.  Python integers are     *)
(* unbounded; a 32-bit word does not fit the checker's integers, so an     *)
(* integer n is kept as the pair [hi, lo] with n = hi * 65536 + lo and     *)
(* 0 <= lo < 65536 (hi may be negative).  Strings and dictionary keys are  *)
(* the sequences of their UTF-8 bytes.                                     *)
(***************************************************************************)
EXTENDS Integers, Sequences, FiniteSets, TLC

(***************************************************************************)
(* Python integers                                                         *)
(***************************************************************************)
Limb == 65536

NumOf(n) == [hi |-> n \div Limb, lo |-> n % Limb]

Num2(h, l) == [hi |-> h, lo |-> l]

NumAdd(a, b) ==
    LET l == a.lo + b.lo
    IN  [hi |-> a.hi + b.hi + (l \div Limb), lo |-> l % Limb]

NumSub(a, b) ==
    LET l == a.lo - b.lo
    IN  IF l < 0 THEN [hi |-> a.hi - b.hi - 1, lo |-> l + Limb]
                 ELSE [hi |-> a.hi - b.hi, lo |-> l]

NumLess(a, b) == a.hi < b.hi \/ (a.hi = b.hi /\ a.lo < b.lo)

NumLeq(a, b) == a = b \/ NumLess(a, b)

NumNeg(a) == a.hi < 0

(***************************************************************************)
(* The file object: read(n) at a position, short at end-of-file            *)
(***************************************************************************)
\* urlader.read(n) with the cursor at position p: the bytes from p, at most n,
\* fewer (or none) when the file ends first or p lies at or past its end.
Read(img, p, n) ==
    IF NumNeg(p) \/ p.hi > 0 \/ p.lo >= Len(img) THEN << >>
    ELSE LET last == IF p.lo + n <= Len(img) THEN p.lo + n ELSE Len(img)
         IN  [i \in 1..(last - p.lo) |-> img[p.lo + i]]

\* The cursor after that read: it advances by the bytes actually returned.
Advance(img, p, n) == NumAdd(p, NumOf(Len(Read(img, p, n))))

Reverse(s) == [i \in 1..Len(s) |-> s[Len(s) + 1 - i]]

\* int.from_bytes(bs, "big") for at most 4 bytes; the empty sequence is 0.
BigValue(bs) ==
    LET n == Len(bs)
        B(k) == IF n >= k THEN bs[n + 1 - k] ELSE 0   \* k-th byte from the right
    IN  [hi |-> B(4) * 256 + B(3), lo |-> B(2) * 256 + B(1)]

FromBytes(bs, endianess) ==
    IF endianess = "big" THEN BigValue(bs) ELSE BigValue(Reverse(bs))

\* read_integer: the value and the cursor after it.
read_integer(img, p, endianess) ==
    [val |-> FromBytes(Read(img, p, 4), endianess), pos |-> Advance(img, p, 4)]

\* n consecutive read_integer calls from p: the values and the final cursor.
RECURSIVE ReadIntegers(_, _, _, _)
ReadIntegers(img, p, endianess, n) ==
    IF n = 0 THEN [vals |-> << >>, pos |-> p]
    ELSE LET r    == read_integer(img, p, endianess)
             rest == ReadIntegers(img, r.pos, endianess, n - 1)
         IN  [vals |-> <<r.val>> \o rest.vals, pos |-> rest.pos]

(***************************************************************************)
(* hex() and int(s, 0)                                                     *)
(***************************************************************************)
HexDigit(d) == IF d < 10 THEN 48 + d ELSE 87 + d

\* The hexadecimal digits of a natural number n < 65536 * 65536, most
\* significant first, without leading zeros ("0" for zero).
RECURSIVE HexDigitsOf(_)
HexDigitsOf(n) ==
    IF n < 16 THEN <<HexDigit(n)>>
    ELSE HexDigitsOf(n \div 16) \o <<HexDigit(n % 16)>>

FourDigits(n) ==
    <<HexDigit(n \div 4096), HexDigit((n \div 256) % 16),
      HexDigit((n \div 16) % 16), HexDigit(n % 16)>>

\* hex(n) for n >= 0: "0x" and the digits.
Hex(n) ==
    <<48, 120>> \o (IF n.hi = 0 THEN HexDigitsOf(n.lo)
                    ELSE HexDigitsOf(n.hi) \o FourDigits(n.lo))

DigitValue(c) == IF c >= 48 /\ c <= 57 THEN c - 48 ELSE c - 87

RECURSIVE ParseHexDigits(_, _)
ParseHexDigits(s, acc) ==
    IF s = << >> THEN acc
    ELSE LET l == acc.lo * 16 + DigitValue(Head(s))
         IN  ParseHexDigits(Tail(s),
                 [hi |-> acc.hi * 16 + (l \div Limb), lo |-> l % Limb])

\* int(s, 0) of a string hex() produced: skip "0x", read the digits.
ParseInt0(s) == ParseHexDigits(SubSeq(s, 3, Len(s)), NumOf(0))

(***************************************************************************)
(* bytes.decode("utf-8")                                                   *)
(***************************************************************************)
Cont(b) == b >= 128 /\ b <= 191

\* Whether the byte sequence is well-formed UTF-8 (decode succeeds).
RECURSIVE ValidUtf8(_)
ValidUtf8(s) ==
    IF s = << >> THEN TRUE
    ELSE LET b == s[1]
             n == Len(s)
         IN  IF b < 128 THEN ValidUtf8(Tail(s))
             ELSE IF b >= 194 /\ b <= 223
                  THEN n >= 2 /\ Cont(s[2]) /\ ValidUtf8(SubSeq(s, 3, n))
             ELSE IF b >= 224 /\ b <= 239
                  THEN /\ n >= 3
                       /\ Cont(s[2]) /\ Cont(s[3])
                       /\ (b = 224 => s[2] >= 160)
                       /\ (b = 237 => s[2] <= 159)
                       /\ ValidUtf8(SubSeq(s, 4, n))
             ELSE IF b >= 240 /\ b <= 244
                  THEN /\ n >= 4
                       /\ Cont(s[2]) /\ Cont(s[3]) /\ Cont(s[4])
                       /\ (b = 240 => s[2] >= 144)
                       /\ (b = 244 => s[2] <= 143)
                       /\ ValidUtf8(SubSeq(s, 5, n))
             ELSE FALSE

(***************************************************************************)
(* Dictionaries: functions from keys (byte strings) to tagged values       *)
(***************************************************************************)
EmptyDict == [k \in {} |-> 0]

IntVal(n) == [t |-> "int", v |-> n]

StrVal(s) == [t |-> "str", v |-> s]

\* d[k] = v
Put(d, k, v) == [x \in DOMAIN d \cup {k} |-> IF x = k THEN v ELSE d[x]]

\* {**a, **b}: b's entries win.
Merge(a, b) ==
    [x \in DOMAIN a \cup DOMAIN b |-> IF x \in DOMAIN b THEN b[x] ELSE a[x]]

RECURSIVE PutAll(_, _, _)
PutAll(d, keys, vals) ==
    IF keys = << >> THEN d
    ELSE PutAll(Put(d, Head(keys), Head(vals)), Tail(keys), Tail(vals))

K_version == <<118, 101, 114, 115, 105, 111, 110>>
K_memsize == <<109, 101, 109, 115, 105, 122, 101>>
K_flashsize == <<102, 108, 97, 115, 104, 115, 105, 122, 101>>
K_unused1 == <<117, 110, 117, 115, 101, 100, 49>>
K_unused2 == <<117, 110, 117, 115, 101, 100, 50>>
K_unknown_data1 == <<117, 110, 107, 110, 111, 119, 110, 95, 100, 97, 116, 97, 49>>
K_unknown_data2 == <<117, 110, 107, 110, 111, 119, 110, 95, 100, 97, 116, 97, 50>>
K_last_data_position ==
    <<108, 97, 115, 116, 95, 100, 97, 116, 97, 95, 112, 111, 115, 105, 116, 105, 111, 110>>
K_struct_end == <<115, 116, 114, 117, 99, 116, 95, 101, 110, 100>>
K_unknown == <<117, 110, 107, 110, 111, 119, 110>>

\* f"mtd{i}_start", f"mtd{i}_length"
K_mtd_start(i) == <<109, 116, 100, 48 + i, 95, 115, 116, 97, 114, 116>>
K_mtd_length(i) == <<109, 116, 100, 48 + i, 95, 108, 101, 110, 103, 116, 104>>

\* The keys of n (start, length) pairs, in reading order.
RECURSIVE MtdKeys(_, _)
MtdKeys(i, n) ==
    IF i >= n THEN << >>
    ELSE <<K_mtd_start(i), K_mtd_length(i)>> \o MtdKeys(i + 1, n)

HexVals(vals) == [i \in 1..Len(vals) |-> StrVal(Hex(vals[i]))]

(***************************************************************************)
(* Input images, laid out as the decoders' docstrings describe             *)
(***************************************************************************)
MaxRecords == 2

Filler == 65

\* Content the decoders never interpret: "AAA" and a zero byte, repeated.
Fill(n) == [i \in 1..n |-> IF i % 4 = 0 THEN 0 ELSE Filler]

Zeros(n) == [i \in 1..n |-> 0]

\* The 4 bytes of a 32-bit value in the given byte order.
WordBytes(n, endianess) ==
    LET big == <<n.hi \div 256, n.hi % 256, n.lo \div 256, n.lo % 256>>
    IN  IF endianess = "big" THEN big ELSE Reverse(big)

RECURSIVE Words(_, _)
Words(ns, endianess) ==
    IF ns = << >> THEN << >>
    ELSE WordBytes(Head(ns), endianess) \o Words(Tail(ns), endianess)

RECURSIVE Repeat(_, _)
Repeat(s, n) == IF n = 0 THEN << >> ELSE s \o Repeat(s, n - 1)

Ones32 == Num2(65535, 65535)     \* 0xFFFFFFFF

Mtd2Bases == {NumOf(0), Num2(40704, 0)}     \* 0x0 and 0x9F000000

\* Variable-table entries: a name and a value string; nullvalue marks a record
\* whose value pointer is the literal 0 (only its name pointer is non-zero).
S_a == <<97>>
S_x == <<120>>
S_b == <<98>>
S_y == <<121>>
S_e_acute == <<195, 169>>
Pairs ==
    { [name |-> S_a, value |-> S_x, nullvalue |-> FALSE],
      [name |-> K_version, value |-> S_y, nullvalue |-> FALSE],
      [name |-> S_b, value |-> S_e_acute, nullvalue |-> TRUE] }

Tables == UNION { [1..k -> Pairs] : k \in 0..MaxRecords }

\* The string region: name, 0x00, value, 0x00 for every entry in turn.
RECURSIVE StringRegion(_)
StringRegion(table) ==
    IF table = << >> THEN << >>
    ELSE Head(table).name \o <<0>> \o Head(table).value \o <<0>>
         \o StringRegion(Tail(table))

NameAt(table, i, strStart) == strStart + Len(StringRegion(SubSeq(table, 1, i - 1)))

ValueAt(table, i, strStart) == NameAt(table, i, strStart) + Len(table[i].name) + 1

\* The pointer table: (value pointer, name pointer) per entry, each the string's
\* image position plus the pointer base, then the all-zero record if asked.
PointerTable(table, strStart, ptrBase, endianess, sentinel) ==
    LET Rec(i) ==
            WordBytes(IF table[i].nullvalue THEN NumOf(0)
                      ELSE NumAdd(ptrBase, NumOf(ValueAt(table, i, strStart))),
                      endianess)
            \o WordBytes(NumAdd(ptrBase, NumOf(NameAt(table, i, strStart))), endianess)
        RECURSIVE Recs(_)
        Recs(i) == IF i > Len(table) THEN << >> ELSE Rec(i) \o Recs(i + 1)
    IN  Recs(1) \o (IF sentinel THEN Zeros(8) ELSE << >>)

\* Values of the fixed fields that play no part in pointer resolution.
MemSize == Num2(1024, 0)
FlashSize == Num2(256, 0)
MtdStart(i, m2) == IF i = 2 THEN m2 ELSE Num2(40704 + i, 0)
MtdLength(i) == Num2(i + 1, 0)

RECURSIVE MtdWords(_, _, _)
MtdWords(i, n, m2) ==
    IF i >= n THEN << >>
    ELSE <<MtdStart(i, m2), MtdLength(i)>> \o MtdWords(i + 1, n, m2)

\* What precedes the structure: nothing at offset 0, else a first word and filler.
Prefix(sc) == IF sc.base = 0 THEN << >> ELSE sc.w0 \o Fill(sc.base - 4)

\* Length of the structure's fixed part, from the version word to the table.
HeaderLen(sc) ==
    CASE sc.kind = "v2" -> 36 + 4 * 19
      [] sc.kind = "v3pad" -> 4 + 4 * 12 + 4 * sc.npad + 4
      [] sc.kind = "v3zero" -> 4 + 4 * 12 + 4 * sc.nzero + 12
      [] OTHER -> 4

TableStart(sc) == sc.base + HeaderLen(sc)

StrStart(sc) == TableStart(sc) + 8 * Len(sc.table) + (IF sc.sentinel THEN 8 ELSE 0)

FullLen(sc) == StrStart(sc) + Len(StringRegion(sc.table))

\* The cursor position that bounds the pointer scan (v2, padded v3).
BoundPos(sc) == IF sc.far THEN FullLen(sc) + 16 ELSE StrStart(sc)

\* struct_end of the zero-terminated v3 variant: any value; pointers are taken
\* relative to struct_end - 0x140.
ZeroStructEnd == Num2(40704, 1516)

PtrBase(sc) ==
    IF sc.kind = "v3zero" THEN NumSub(ZeroStructEnd, NumOf(320)) ELSE sc.m2

Header(sc) ==
    LET e == sc.endianess
        ver == WordBytes(sc.version, e)
        endWord == NumAdd(sc.m2, NumOf(BoundPos(sc)))
    IN  CASE sc.kind = "v2" ->
               ver \o Fill(32)
               \o Words(<<MemSize, FlashSize, NumOf(0), NumOf(0)>>, e)
               \o Words(MtdWords(0, 6, sc.m2), e)
               \o Words(<<NumOf(17), NumOf(0), endWord>>, e)
          [] sc.kind = "v3pad" ->
               ver \o Words(<<MemSize, FlashSize>>, e)
               \o Words(MtdWords(0, 5, sc.m2), e)
               \o Repeat(WordBytes(Ones32, e), sc.npad)
               \o WordBytes(endWord, e)
          [] sc.kind = "v3zero" ->
               ver \o Words(<<MemSize, FlashSize>>, e)
               \o Words(MtdWords(0, 5, sc.m2), e)
               \o Zeros(4 * sc.nzero)
               \o Words(<<NumOf(4660), sc.u2, ZeroStructEnd>>, e)
          [] OTHER -> ver

Build(sc) ==
    LET full == Prefix(sc) \o Header(sc)
                \o PointerTable(sc.table, StrStart(sc), PtrBase(sc),
                                sc.endianess, sc.sentinel)
                \o StringRegion(sc.table)
    IN  IF sc.tailpad THEN full \o Fill(1416 - Len(full))
        ELSE SubSeq(full, 1, Len(full) - sc.cut)

(***************************************************************************)
(* The images the model decodes                                            *)
(***************************************************************************)
MaxPointers == 5

PadCounts == {0, 1, 10}

Layouts == {"big", "little"}

\* Where the structure sits and how the file ends: at offset 0 (whole, cut
\* short, or followed by filler past 0x580) or at offset 0x580 behind a first
\* word that is filler or reads as version 3 in big-endian.
Placements ==
    { [base |-> 0, w0 |-> Fill(4), cut |-> c, tailpad |-> FALSE] : c \in {0, 1} }
    \cup { [base |-> 0, w0 |-> Fill(4), cut |-> 0, tailpad |-> TRUE] }
    \cup { [base |-> 1408, w0 |-> w, cut |-> 0, tailpad |-> FALSE] :
             w \in {Fill(4), <<0, 0, 0, 3>>} }

Shape(kind, ver, npad, nzero, u2, m2, table, sentinel, far) ==
    [kind |-> kind, version |-> ver, npad |-> npad, nzero |-> nzero, u2 |-> u2,
     m2 |-> m2, table |-> table, sentinel |-> sentinel, far |-> far]

Shapes ==
    { Shape("none", NumOf(v), 0, 0, NumOf(0), NumOf(0), << >>, FALSE, FALSE) :
         v \in {0, 5, 7} }
    \cup { Shape("v2", NumOf(2), 0, 0, NumOf(0), m, t, s, f) :
             m \in Mtd2Bases, t \in Tables, s \in BOOLEAN, f \in BOOLEAN }
    \cup { Shape("v3pad", NumOf(3), n, 0, NumOf(0), m, t, s, FALSE) :
             n \in PadCounts, m \in Mtd2Bases, t \in Tables, s \in BOOLEAN }
    \cup { Shape("v3zero", NumOf(3), 0, z, u, NumOf(0), t, s, FALSE) :
             z \in {1, 2}, u \in {NumOf(0), NumOf(22136)}, t \in Tables,
             s \in BOOLEAN }

Scenario(sh, pl, e) ==
    [kind |-> sh.kind, version |-> sh.version, npad |-> sh.npad,
     nzero |-> sh.nzero, u2 |-> sh.u2, m2 |-> sh.m2, table |-> sh.table,
     sentinel |-> sh.sentinel, far |-> sh.far, endianess |-> e,
     base |-> pl.base, w0 |-> pl.w0, cut |-> pl.cut, tailpad |-> pl.tailpad]

Images == { Build(Scenario(sh, pl, e)) : sh \in Shapes, pl \in Placements, e \in Layouts }

(***************************************************************************)
(* State                                                                   *)
(***************************************************************************)
VARIABLES
    image,          \* the file's bytes
    pc,             \* where the program is
    pos,            \* urlader.tell()
    probed,         \* identify_urlader: the candidates read so far, in order
    version_binary, \* identify_urlader: the bytes of the last probe
    identified,     \* identify_urlader's return value
    endianess,      \* parse_urlader's arguments
    offset,
    version,        \* parse_urlader: the bytes read at offset_start
    variables,      \* parse_urlader's dictionary
    decoder,        \* 2 or 3: the layout decoder running (0: none)
    layout,         \* the layout decoder's dictionary (its local "variables")
    struct_end_candidate,
    pointer_offset, \* mtd2_offset (v2), pointer_offset (v3)
    relative_last_data_position,
    table_start,    \* the cursor when read_variable_pointers was entered
    value_bytes,    \* read_variable_pointers: value and name of the last record
    name_bytes,
    pointers,       \* read_variable_pointers' list
    idx,            \* the pointer the for loop is at
    full_data,      \* read_string's locals
    data,
    name,           \* the resolved name of the pointer at idx
    result,         \* what parse_urlader returned
    err             \* the error printed or the exception raised

idVars == <<probed, version_binary, identified>>
argVars == <<endianess, offset, version, variables, decoder>>
layoutVars == <<layout, struct_end_candidate, pointer_offset, relative_last_data_position>>
scanVars == <<table_start, value_bytes, name_bytes, pointers>>
strVars == <<idx, full_data, data, name>>
vars == <<image, pc, pos, idVars, argVars, layoutVars, scanVars, strVars, result, err>>

NotFound == [found |-> FALSE, endianess |-> "None", offset |-> NumOf(0)]

Found(e, o) == [found |-> TRUE, endianess |-> e, offset |-> o]

NoResult == [returned |-> FALSE, vars |-> EmptyDict]

Returned(d) == [returned |-> TRUE, vars |-> d]

Init ==
    /\ image \in Images
    /\ pc = "start"
    /\ pos = NumOf(0)
    /\ probed = << >>
    /\ version_binary = << >>
    /\ identified = NotFound
    /\ endianess = "None"
    /\ offset = NumOf(0)
    /\ version = << >>
    /\ variables = EmptyDict
    /\ decoder = 0
    /\ layout = EmptyDict
    /\ struct_end_candidate = NumOf(0)
    /\ pointer_offset = NumOf(0)
    /\ relative_last_data_position = NumOf(0)
    /\ table_start = NumOf(0)
    /\ value_bytes = << >>
    /\ name_bytes = << >>
    /\ pointers = << >>
    /\ idx = 1
    /\ full_data = << >>
    /\ data = << >>
    /\ name = << >>
    /\ result = NoResult
    /\ err = "none"

(***************************************************************************)
(* identify_urlader                                                        *)
(***************************************************************************)
\* A slip: the loops nested the other way round, offsets outermost.
CandidatesOffsetOuter ==
    << <<"big", NumOf(0)>>, <<"little", NumOf(0)>>,
       <<"big", NumOf(1408)>>, <<"little", NumOf(1408)>> >>

\* for endianess in ["big", "little"]: for offset in [0x0, 0x580]
Candidates ==
    << <<"big", NumOf(0)>>, <<"big", NumOf(1408)>>,
       <<"little", NumOf(0)>>, <<"little", NumOf(1408)>> >>

\* version <= 5
Accepted(v) == NumLeq(v, NumOf(5))

\* One pass of the inner loop body: seek, read 4 bytes, test, return on a match;
\* after the last candidate, return (None, None).
IdentifyProbe ==
    /\ pc \in {"start", "identify"}
    /\ Len(probed) < Len(Candidates)
    /\ LET c  == Candidates[Len(probed) + 1]
           bs == Read(image, c[2], 4)
       IN  /\ probed' = Append(probed, c)
           /\ version_binary' = bs
           /\ pos' = Advance(image, c[2], 4)
           /\ IF Accepted(FromBytes(bs, c[1]))
              THEN identified' = Found(c[1], c[2]) /\ pc' = "identified"
              ELSE /\ identified' = NotFound
                   /\ pc' = IF Len(probed) + 1 = Len(Candidates)
                            THEN "identified" ELSE "identify"
    /\ UNCHANGED <<image, argVars, layoutVars, scanVars, strVars, result, err>>

(***************************************************************************)
(* parse_urlader                                                           *)
(***************************************************************************)
\* A slip: every version but 3 is handed to the v2 decoder.
DispatchAnyToV2(v) == IF v = NumOf(3) THEN 3 ELSE 2

\* The layout decoder parse_urlader hands a version to (0: none).
Dispatch(v) == IF v = NumOf(2) THEN 2 ELSE IF v = NumOf(3) THEN 3 ELSE 0

\* seek(offset_start), read the version, record it, dispatch on it; any other
\* version prints the error and returns the dictionary as it stands.
ParseEnter(e, o) ==
    LET bs == Read(image, o, 4)
        v  == FromBytes(bs, e)
        d  == Put(EmptyDict, K_version, IntVal(v))
    IN  /\ endianess' = e
        /\ offset' = o
        /\ version' = bs
        /\ pos' = Advance(image, o, 4)
        /\ variables' = d
        /\ decoder' = Dispatch(v)
        /\ IF Dispatch(v) = 2 THEN pc' = "v2" /\ UNCHANGED <<result, err>>
           ELSE IF Dispatch(v) = 3 THEN pc' = "v3" /\ UNCHANGED <<result, err>>
           ELSE /\ pc' = "done"
                /\ result' = Returned(d)
                /\ err' = "UnsupportedVersion"
        /\ UNCHANGED <<image, idVars, layoutVars, scanVars, strVars>>

\* A caller's parse_urlader(filepath, endianess, offset_start).
ParseUrlader ==
    /\ pc = "start"
    /\ \E e \in Layouts, o \in {NumOf(0), NumOf(1408)} : ParseEnter(e, o)

\* The script: parse_urlader on what identify_urlader returned; with
\* (None, None), seek(None) raises TypeError.
MainParse ==
    /\ pc = "identified"
    /\ IF identified.found
       THEN ParseEnter(identified.endianess, identified.offset)
       ELSE /\ pc' = "done"
            /\ err' = "TypeError"
            /\ UNCHANGED <<image, pos, idVars, argVars, layoutVars, scanVars,
                           strVars, result>>

(***************************************************************************)
(* parse_urlader_v2                                                        *)
(***************************************************************************)
V2Keys ==
    <<K_memsize, K_flashsize, K_unused1, K_unused2>> \o MtdKeys(0, 6)
    \o <<K_unknown_data1, K_unknown_data2, K_last_data_position>>

\* How v2 stores the i-th fixed field: the first four as integers, the rest as
\* hex strings.
V2Vals(vals) ==
    [i \in 1..Len(vals) |-> IF i <= 4 THEN IntVal(vals[i]) ELSE StrVal(Hex(vals[i]))]

\* A slip: the base taken from mtd0_start.
V2BaseMtd0(d) == ParseInt0(d[K_mtd_start(0)].v)

\* mtd2_offset = int(variables["mtd2_start"], 0)
V2Base(d) == ParseInt0(d[K_mtd_start(2)].v)

\* relative_last_data_position = last_data_position - mtd2_offset
V2Bound(last, base) == NumSub(last, base)

\* The fixed fields from offset + 0x24 up to last_data_position, and the base
\* and bound of the pointer table.
V2Fixed ==
    /\ pc = "v2"
    /\ LET r == ReadIntegers(image, NumAdd(offset, NumOf(36)), endianess, 19)
           d == PutAll(EmptyDict, V2Keys, V2Vals(r.vals))
       IN  /\ layout' = d
           /\ pos' = r.pos
           /\ table_start' = r.pos
           /\ pointer_offset' = V2Base(d)
           /\ relative_last_data_position' = V2Bound(r.vals[19], V2Base(d))
    /\ pc' = "scan"
    /\ pointers' = << >>
    /\ UNCHANGED <<image, idVars, argVars, struct_end_candidate, value_bytes,
                   name_bytes, strVars, result, err>>

(***************************************************************************)
(* parse_urlader_v3                                                        *)
(***************************************************************************)
V3Keys == <<K_memsize, K_flashsize>> \o MtdKeys(0, 5)

\* The fixed fields from offset + 4, all as hex strings, and the first
\* struct_end_candidate.
V3Fixed ==
    /\ pc = "v3"
    /\ LET r == ReadIntegers(image, NumAdd(offset, NumOf(4)), endianess, 12)
           c == read_integer(image, r.pos, endianess)
       IN  /\ layout' = PutAll(EmptyDict, V3Keys, HexVals(r.vals))
           /\ struct_end_candidate' = c.val
           /\ pos' = c.pos
    /\ pc' = "v3_if"
    /\ UNCHANGED <<image, idVars, argVars, pointer_offset,
                   relative_last_data_position, scanVars, strVars, result, err>>

\* A slip: a first word that is not 0 is taken for the end of the padding.
ClassifyAcceptAny(c) ==
    IF c = NumOf(0) THEN "v3_zero" ELSE "v3_pad"

\* if struct_end_candidate == 0xFFFFFFFF ... elif == 0x00000000 ... else raise
Classify(c) ==
    IF c = Ones32 THEN "v3_pad" ELSE IF c = NumOf(0) THEN "v3_zero" ELSE "raise"

V3If ==
    /\ pc = "v3_if"
    /\ IF Classify(struct_end_candidate) = "raise"
       THEN pc' = "done" /\ err' = "Exception"
       ELSE pc' = Classify(struct_end_candidate) /\ err' = err
    /\ UNCHANGED <<image, pos, idVars, argVars, layoutVars, scanVars, strVars, result>>

\* while struct_end_candidate == 0xFFFFFFFF: read the next integer
V3PadSkip ==
    /\ pc = "v3_pad"
    /\ struct_end_candidate = Ones32
    /\ LET c == read_integer(image, pos, endianess)
       IN  struct_end_candidate' = c.val /\ pos' = c.pos
    /\ UNCHANGED <<image, pc, idVars, argVars, layout, pointer_offset,
                   relative_last_data_position, scanVars, strVars, result, err>>

\* pointer_offset = int(variables["mtd2_start"], 0)
V3PadBase(d) == ParseInt0(d[K_mtd_start(2)].v)

\* The padding has ended: struct_end, the base and the bound of the table.
V3PadEnd ==
    /\ pc = "v3_pad"
    /\ struct_end_candidate # Ones32
    /\ pointer_offset' = V3PadBase(layout)
    /\ relative_last_data_position' = NumSub(struct_end_candidate, V3PadBase(layout))
    /\ layout' = Put(layout, K_struct_end, StrVal(Hex(struct_end_candidate)))
    /\ pc' = "scan"
    /\ table_start' = pos
    /\ pointers' = << >>
    /\ UNCHANGED <<image, pos, idVars, argVars, struct_end_candidate, value_bytes,
                   name_bytes, strVars, result, err>>

\* while struct_end_candidate == 0x00000000: read the next integer
V3ZeroSkip ==
    /\ pc = "v3_zero"
    /\ struct_end_candidate = NumOf(0)
    /\ LET c == read_integer(image, pos, endianess)
       IN  struct_end_candidate' = c.val /\ pos' = c.pos
    /\ UNCHANGED <<image, pc, idVars, argVars, layout, pointer_offset,
                   relative_last_data_position, scanVars, strVars, result, err>>

\* A slip: the key names the offset of the word, not the cursor after it.
UnknownKeyAtWord(p) == K_unknown \o Hex(NumSub(p, NumOf(4)))

\* f"unknown{hex(urlader.tell())}" with the cursor at p
UnknownKey(p) == K_unknown \o Hex(p)

\* pointer_offset = struct_end - 0x140
ZeroBase(se) == NumSub(se, NumOf(320))

\* relative_last_data_position = 0xFFFFFFFF
ZeroBound(se) == Ones32

\* The zeros have ended: the candidate and the next integer are recorded under
\* the cursor position that follows each, the integer after them is struct_end.
V3ZeroEnd ==
    /\ pc = "v3_zero"
    /\ struct_end_candidate # NumOf(0)
    /\ LET u2 == read_integer(image, pos, endianess)
           se == read_integer(image, u2.pos, endianess)
           d1 == Put(layout, UnknownKey(pos), StrVal(Hex(struct_end_candidate)))
           d2 == Put(d1, UnknownKey(u2.pos), StrVal(Hex(u2.val)))
       IN  /\ layout' = Put(d2, K_struct_end, StrVal(Hex(se.val)))
           /\ pos' = se.pos
           /\ table_start' = se.pos
           /\ pointer_offset' = ZeroBase(se.val)
           /\ relative_last_data_position' = ZeroBound(se.val)
    /\ pc' = "scan"
    /\ pointers' = << >>
    /\ UNCHANGED <<image, idVars, argVars, struct_end_candidate, value_bytes,
                   name_bytes, strVars, result, err>>

(***************************************************************************)
(* read_variable_pointers                                                  *)
(***************************************************************************)
\* A slip: "or" for "and".
SentinelEitherZero(vb, nb) == vb = Zeros(4) \/ nb = Zeros(4)

\* value == b"\x00\x00\x00\x00" and name == b"\x00\x00\x00\x00"
IsSentinel(vb, nb) == vb = Zeros(4) /\ nb = Zeros(4)

PointerRecord(vb, nb, e) ==
    [value |-> FromBytes(vb, e), name |-> FromBytes(nb, e)]

\* One pass of the while body: read the record, break on the all-zero record,
\* append any other.
ScanRecord ==
    /\ pc = "scan"
    /\ NumLess(pos, relative_last_data_position)
    /\ Len(pointers) < MaxPointers
    /\ LET value == Read(image, pos, 4)
           p1    == Advance(image, pos, 4)
           nm    == Read(image, p1, 4)
       IN  /\ value_bytes' = value
           /\ name_bytes' = nm
           /\ pos' = Advance(image, p1, 4)
           /\ IF IsSentinel(value, nm)
              THEN pc' = "for" /\ pointers' = pointers
              ELSE /\ pc' = "scan"
                   /\ pointers' = Append(pointers, PointerRecord(value, nm, endianess))
    /\ idx' = 1
    /\ UNCHANGED <<image, idVars, argVars, layoutVars, table_start, full_data, data,
                   name, result, err>>

\* The while condition fails: the cursor has reached the bound.
ScanStop ==
    /\ pc = "scan"
    /\ ~NumLess(pos, relative_last_data_position)
    /\ pc' = "for"
    /\ idx' = 1
    /\ UNCHANGED <<image, pos, idVars, argVars, layoutVars, scanVars, full_data,
                   data, name, result, err>>

(***************************************************************************)
(* read_string, and the loop that resolves the pointers                    *)
(***************************************************************************)
\* pointer - mtd2_offset, pointer - pointer_offset
Resolve(ptr, base) == NumSub(ptr, base)

\* The start of read_string(urlader, position): seek (a negative position
\* raises OSError), then the first read(1).
ReadStringEnter(position, next) ==
    IF NumNeg(position)
    THEN /\ pc' = "done"
         /\ err' = "OSError"
         /\ UNCHANGED <<pos, full_data, data>>
    ELSE /\ pc' = next
         /\ err' = err
         /\ full_data' = << >>
         /\ data' = Read(image, position, 1)
         /\ pos' = Advance(image, position, 1)

\* for pointer in pointers: name = read_string(urlader, pointer["name"] - base)
ForPointer ==
    /\ pc = "for"
    /\ idx <= Len(pointers)
    /\ ReadStringEnter(Resolve(pointers[idx].name, pointer_offset), "rs_name")
    /\ UNCHANGED <<image, idVars, argVars, layoutVars, scanVars, idx, name, result>>

\* while data != b"\x00": full_data = full_data + data; data = urlader.read(1)
ReadStringLoop ==
    /\ pc \in {"rs_name", "rs_value"}
    /\ data # <<0>>
    /\ full_data' = full_data \o data
    /\ data' = Read(image, pos, 1)
    /\ pos' = Advance(image, pos, 1)
    /\ UNCHANGED <<image, pc, idVars, argVars, layoutVars, scanVars, idx, name,
                   result, err>>

\* The name is read (decode fails on malformed UTF-8); read_string of the value
\* starts.
NameRead ==
    /\ pc = "rs_name"
    /\ data = <<0>>
    /\ IF ValidUtf8(full_data)
       THEN /\ name' = full_data
            /\ ReadStringEnter(Resolve(pointers[idx].value, pointer_offset), "rs_value")
       ELSE /\ pc' = "done"
            /\ err' = "UnicodeDecodeError"
            /\ UNCHANGED <<pos, full_data, data, name>>
    /\ UNCHANGED <<image, idVars, argVars, layoutVars, scanVars, idx, result>>

\* The value is read: variables[name] = value, on to the next pointer.
ValueRead ==
    /\ pc = "rs_value"
    /\ data = <<0>>
    /\ IF ValidUtf8(full_data)
       THEN /\ layout' = Put(layout, name, StrVal(full_data))
            /\ idx' = idx + 1
            /\ pc' = "for"
            /\ err' = err
       ELSE /\ pc' = "done"
            /\ err' = "UnicodeDecodeError"
            /\ UNCHANGED <<layout, idx>>
    /\ UNCHANGED <<image, pos, idVars, argVars, struct_end_candidate, pointer_offset,
                   relative_last_data_position, scanVars, full_data, data, name,
                   result>>

\* The loop is over: the decoder returns its dictionary, parse_urlader merges it
\* into its own and returns that.
ParseReturn ==
    /\ pc = "for"
    /\ idx > Len(pointers)
    /\ variables' = Merge(variables, layout)
    /\ result' = Returned(variables')
    /\ pc' = "done"
    /\ UNCHANGED <<image, pos, idVars, endianess, offset, version, decoder,
                   layoutVars, scanVars, strVars, err>>

Next ==
    \/ IdentifyProbe
    \/ MainParse
    \/ ParseUrlader
    \/ V2Fixed
    \/ V3Fixed
    \/ V3If
    \/ V3PadSkip
    \/ V3PadEnd
    \/ V3ZeroSkip
    \/ V3ZeroEnd
    \/ ScanRecord
    \/ ScanStop
    \/ ForPointer
    \/ ReadStringLoop
    \/ NameRead
    \/ ValueRead
    \/ ParseReturn

Spec == Init /\ [][Next]_vars

(***************************************************************************)
(* Reading the image directly, for the properties below                    *)
(***************************************************************************)
\* Whether the image holds 4 bytes at position p (an integer).
HasWord(p) == p >= 0 /\ p + 4 <= Len(image)

\* The 32-bit value of the 4 bytes at position p in byte order e.
WordAt(p, e) ==
    IF e = "big"
    THEN Num2(image[p + 1] * 256 + image[p + 2], image[p + 3] * 256 + image[p + 4])
    ELSE Num2(image[p + 4] * 256 + image[p + 3], image[p + 2] * 256 + image[p + 1])

AtMostFive(n) == n.hi = 0 /\ n.lo <= 5

\* The detection order the specification gives.
DetectOrder ==
    << [endianess |-> "big", offset |-> 0], [endianess |-> "big", offset |-> 1408],
       [endianess |-> "little", offset |-> 0], [endianess |-> "little", offset |-> 1408] >>

CandidateOk(i) ==
    AtMostFive(WordAt(DetectOrder[i].offset, DetectOrder[i].endianess))

ProbedSoFar(n) ==
    [i \in 1..n |-> <<DetectOrder[i].endianess, NumOf(DetectOrder[i].offset)>>]

\* C1: identify_urlader probes (big, 0x0), (big, 0x580), (little, 0x0),
\* (little, 0x580) in that order, each as the 4 bytes at the offset in the
\* candidate's byte order; it returns the first candidate whose value is <= 5
\* and probes none after it, and returns (None, None) exactly when all four
\* were probed and none has a value <= 5.  Stated for the probes that found 4
\* bytes at their offset.
C1_FirstMatchWins ==
    LET n == Len(probed)
    IN  (/\ pc \in {"identify", "identified"}
         /\ \A i \in 1..n : i <= 4 /\ HasWord(DetectOrder[i].offset))
        => /\ n <= 4
           /\ probed = ProbedSoFar(n)
           /\ \A i \in 1..(n - 1) : ~CandidateOk(i)
           /\ pc = "identify" => n >= 1 /\ ~CandidateOk(n) /\ ~identified.found
           /\ pc = "identified" =>
                /\ n >= 1
                /\ identified.found <=> CandidateOk(n)
                /\ identified.found =>
                     /\ identified.endianess = DetectOrder[n].endianess
                     /\ identified.offset = NumOf(DetectOrder[n].offset)
                /\ ~identified.found => n = 4

\* An image acceptable as big-endian at 0x0 and as little-endian at 0x580 has
\* been identified as (big, 0x0), after that one probe.
C1_Witness ==
    /\ pc = "identified"
    /\ HasWord(1408)
    /\ AtMostFive(WordAt(0, "big"))
    /\ AtMostFive(WordAt(1408, "little"))
    /\ identified = Found("big", NumOf(0))
    /\ Len(probed) = 1

\* No candidate of a whole image is acceptable: (None, None) after four probes.
C1_WitnessNone ==
    /\ pc = "identified"
    /\ HasWord(1408)
    /\ ~identified.found
    /\ Len(probed) = 4

\* C2: when the 4-byte version field at base_offset is neither 2 nor 3,
\* parse_urlader reports the unsupported version, runs neither layout decoder,
\* and returns a dictionary whose only key is version, with the value read.
C2_UnsupportedVersion ==
    (/\ endianess # "None"
     /\ HasWord(offset.lo)
     /\ WordAt(offset.lo, endianess) \notin {NumOf(2), NumOf(3)})
    => /\ pc = "done"
       /\ err = "UnsupportedVersion"
       /\ decoder = 0
       /\ layout = EmptyDict
       /\ pointers = << >>
       /\ result.returned
       /\ DOMAIN result.vars = {K_version}
       /\ result.vars[K_version] = IntVal(WordAt(offset.lo, endianess))

\* parse_urlader has returned for an image whose version field reads 7.
C2_Witness ==
    /\ endianess # "None"
    /\ HasWord(offset.lo)
    /\ WordAt(offset.lo, endianess) = NumOf(7)
    /\ pc = "done"
    /\ result.returned
    /\ result.vars[K_version] = IntVal(NumOf(7))

(***************************************************************************)
(* The variable table                                                      *)
(***************************************************************************)
HasRecord(p) == HasWord(p) /\ HasWord(p + 4)

AllZeroRecord(p) == \A i \in 1..8 : image[p + i] = 0

\* k records that are not all-zero lie at t, and the all-zero record follows.
WellFormedTable(t, k) ==
    /\ \A j \in 0..(k - 1) : HasRecord(t + 8 * j) /\ ~AllZeroRecord(t + 8 * j)
    /\ HasRecord(t + 8 * k)
    /\ AllZeroRecord(t + 8 * k)

\* The records at t, t + 8, ... that are whole and all-zero, by index.
ZeroRecords(t) ==
    { j \in 0..((Len(image) - t) \div 8) :
        HasRecord(t + 8 * j) /\ AllZeroRecord(t + 8 * j) }

\* The number of records at t before the first all-zero record; -1 when the
\* image ends before an all-zero record is found.
TableSize(t) ==
    LET z == ZeroRecords(t)
    IN  IF z = {} THEN -1 ELSE CHOOSE j \in z : \A i \in z : j <= i

ExpectedRecord(t, i) ==
    [value |-> WordAt(t + 8 * (i - 1), endianess),
     name  |-> WordAt(t + 8 * (i - 1) + 4, endianess)]

InScanOrAfter == pc \in {"scan", "for", "rs_name", "rs_value"}

\* C3: for a well-formed variable table lying before the position bound,
\* read_variable_pointers returns exactly the records before the first all-zero
\* record, in order, each as (value pointer, name pointer); it stops at that
\* record, leaves it out, and reads nothing after it.
C3_ScanStopsAtSentinel ==
    (InScanOrAfter /\ table_start.hi = 0)
    => LET t == table_start.lo
           k == TableSize(t)
           n == Len(pointers)
       IN  (/\ k >= 0
            /\ WellFormedTable(t, k)
            /\ NumLeq(NumOf(t + 8 * (k + 1)), relative_last_data_position))
           => /\ pc = "scan" =>
                   /\ n <= k
                   /\ pointers = [i \in 1..n |-> ExpectedRecord(t, i)]
                   /\ pos = NumOf(t + 8 * n)
              /\ pc # "scan" => pointers = [i \in 1..k |-> ExpectedRecord(t, i)]
              /\ (pc = "for" /\ idx = 1) => pos = NumOf(t + 8 * (k + 1))

\* A scan without a position bound has returned the two records of a
\* well-formed table, one of them with a zero value pointer.
C3_Witness ==
    /\ pc = "for"
    /\ idx = 1
    /\ WellFormedTable(table_start.lo, 2)
    /\ relative_last_data_position = Ones32
    /\ Len(pointers) = 2
    /\ \E i \in 1..2 : pointers[i].value = NumOf(0)
    /\ pos = NumOf(table_start.lo + 24)

\* The same under a position bound (v2).
C3_WitnessBounded ==
    /\ pc = "for"
    /\ idx = 1
    /\ decoder = 2
    /\ WellFormedTable(table_start.lo, 2)
    /\ relative_last_data_position = NumOf(table_start.lo + 24)
    /\ Len(pointers) = 2

(***************************************************************************)
(* Strings                                                                 *)
(***************************************************************************)
\* Whether a 0x00 byte lies at or after position p.
Terminated(p) == \E q \in p..(Len(image) - 1) : image[q + 1] = 0

\* The position of the first 0x00 byte at or after p.
TerminatorAt(p) ==
    CHOOSE q \in p..(Len(image) - 1) :
        image[q + 1] = 0 /\ \A r \in p..(q - 1) : image[r + 1] # 0

\* The bytes from p up to that byte.
CStringAt(p) == [i \in 1..(TerminatorAt(p) - p) |-> image[p + i]]

InImage(n) == n.hi = 0 /\ n.lo < Len(image)

\* C4: in a v2 image the base subtracted from every name and value pointer is
\* the mtd2_start field, and the scan bound is last_data_position - mtd2_start;
\* each string is read from its pointer minus mtd2_start on, and a record whose
\* pointers are string positions plus mtd2_start contributes the entry
\* name -> value, with exactly the strings at those positions.
C4_V2BaseIsMtd2Start ==
    (/\ decoder = 2
     /\ pc \in {"scan", "for", "rs_name", "rs_value", "done"}
     /\ HasWord(offset.lo + 108))
    => LET m2   == WordAt(offset.lo + 68, endianess)
           last == WordAt(offset.lo + 108, endianess)
       IN  /\ pointer_offset = m2
           /\ relative_last_data_position = NumSub(last, m2)
           /\ table_start = NumOf(offset.lo + 112)
           /\ \A which \in {"rs_name", "rs_value"} :
                pc = which =>
                  LET ptr   == IF which = "rs_name" THEN pointers[idx].name
                               ELSE pointers[idx].value
                      start == NumSub(ptr, m2)
                      got   == full_data \o data
                  IN  /\ ~NumNeg(start)
                      /\ pos = NumAdd(start, NumOf(Len(got)))
                      /\ InImage(start) =>
                            got = [i \in 1..Len(got) |-> image[start.lo + i]]
           /\ (pc = "for" /\ idx > 1) =>
                LET np == NumSub(pointers[idx - 1].name, m2)
                    vp == NumSub(pointers[idx - 1].value, m2)
                IN  /\ InImage(np) /\ Terminated(np.lo)
                    /\ InImage(vp) /\ Terminated(vp.lo)
                    /\ CStringAt(np.lo) \in DOMAIN layout
                    /\ layout[CStringAt(np.lo)] = StrVal(CStringAt(vp.lo))

\* A v2 image with mtd2_start = 0x9F000000 has had both of its records
\* resolved: a -> x is in the dictionary.
C4_Witness ==
    /\ decoder = 2
    /\ pc = "for"
    /\ idx = 3
    /\ HasWord(offset.lo + 108)
    /\ WordAt(offset.lo + 68, endianess) = Num2(40704, 0)
    /\ pointer_offset = Num2(40704, 0)
    /\ S_a \in DOMAIN layout
    /\ layout[S_a] = StrVal(S_x)

(***************************************************************************)
(* The v3 structure's end                                                  *)
(***************************************************************************)
\* The position of the word that follows the five MTD pairs.
V3ProbeAt == offset.lo + 52

V3Mtd2Start == WordAt(offset.lo + 28, endianess)

\* The number of consecutive words equal to w from position p on.
RECURSIVE RunOf(_, _)
RunOf(w, p) ==
    IF HasWord(p) /\ WordAt(p, endianess) = w THEN 1 + RunOf(w, p + 4) ELSE 0

PadWords == RunOf(Ones32, V3ProbeAt)

ZeroWords == RunOf(NumOf(0), V3ProbeAt)

PastStructEnd == pc \in {"scan", "for", "rs_name", "rs_value", "done"}

PaddedResult(se) ==
    /\ pointer_offset = V3Mtd2Start
    /\ relative_last_data_position = NumSub(se, V3Mtd2Start)
    /\ K_struct_end \in DOMAIN layout
    /\ layout[K_struct_end] = StrVal(Hex(se))

\* C5 as claimed: with N words of 0xFFFFFFFF after the five MTD pairs and then
\* a struct_end word, N in {0, 1, 10}, decoding succeeds, struct_end is the
\* word after the padding, the base is mtd2_start and the bound is
\* struct_end - mtd2_start.
C5_Claimed ==
    LET at == V3ProbeAt + 4 * PadWords
    IN  (/\ decoder = 3
         /\ pc \notin {"v3", "v3_if", "v3_pad"}
         /\ PadWords \in PadCounts
         /\ HasWord(at)
         /\ WordAt(at, endianess) # NumOf(0))
        => /\ err # "Exception"
           /\ PaddedResult(WordAt(at, endianess))

\* C5, amended: the same for every N >= 1 (1 and 10 among them); with N = 0 the
\* word after the MTD pairs is struct_end itself, and unless it is 0 the decoder
\* raises and parse_urlader returns nothing.
C5_PaddedStructEnd ==
    LET at == V3ProbeAt + 4 * PadWords
    IN  (decoder = 3 /\ HasWord(at))
        => /\ PadWords >= 1 =>
                /\ err # "Exception"
                /\ pc # "v3_zero"
                /\ PastStructEnd =>
                     /\ PaddedResult(WordAt(at, endianess))
                     /\ table_start = NumOf(at + 4)
           /\ (/\ PadWords = 0
               /\ WordAt(at, endianess) # NumOf(0)
               /\ pc \notin {"v3", "v3_if"}) =>
                /\ pc = "done"
                /\ err = "Exception"
                /\ ~result.returned
                /\ K_struct_end \notin DOMAIN layout

\* A v3 image with ten padding words has been decoded to the end, two table
\* entries included.
C5_Witness ==
    /\ decoder = 3
    /\ PadWords = 10
    /\ HasWord(V3ProbeAt + 40)
    /\ pc = "done"
    /\ err = "none"
    /\ result.returned
    /\ Len(pointers) = 2
    /\ result.vars[K_struct_end] = StrVal(Hex(WordAt(V3ProbeAt + 40, endianess)))

\* A v3 image without padding has been refused.
C5_WitnessNoPadding ==
    /\ decoder = 3
    /\ PadWords = 0
    /\ HasWord(V3ProbeAt)
    /\ WordAt(V3ProbeAt, endianess) # NumOf(0)
    /\ pc = "done"
    /\ err = "Exception"

\* The first non-zero word at or after position p.
RECURSIVE FirstNonZero(_)
FirstNonZero(p) ==
    IF HasWord(p) /\ WordAt(p, endianess) = NumOf(0) THEN FirstNonZero(p + 4) ELSE p

\* C6 as claimed: after the zero words, the first two non-zero integers are
\* recorded under the image offsets of their words, the integer after them is
\* struct_end, the base is struct_end - 0x140 and the scan has no bound.
C6_Claimed ==
    LET p1 == FirstNonZero(V3ProbeAt)
        p2 == FirstNonZero(p1 + 4)
    IN  (/\ decoder = 3
         /\ pc = "scan"
         /\ ZeroWords >= 1
         /\ HasWord(p2 + 4))
        => /\ K_unknown \o Hex(NumOf(p1)) \in DOMAIN layout
           /\ layout[K_unknown \o Hex(NumOf(p1))] = StrVal(Hex(WordAt(p1, endianess)))
           /\ K_unknown \o Hex(NumOf(p2)) \in DOMAIN layout
           /\ layout[K_unknown \o Hex(NumOf(p2))] = StrVal(Hex(WordAt(p2, endianess)))
           /\ layout[K_struct_end] = StrVal(Hex(WordAt(p2 + 4, endianess)))
           /\ pointer_offset = NumSub(WordAt(p2 + 4, endianess), NumOf(320))
           /\ relative_last_data_position = Ones32

\* C6, amended: after the zero words, the first non-zero integer and the integer
\* that follows it (zero or not) are recorded as two distinct entries
\* unknown<offset>, <offset> the hex position just past the respective word
\* (its offset + 4); the integer after them is struct_end, the base is
\* struct_end - 0x140 and the scan bound is 0xFFFFFFFF.
C6_ZeroTerminated ==
    LET p1 == V3ProbeAt + 4 * ZeroWords
        k1 == K_unknown \o Hex(NumOf(p1 + 4))
        k2 == K_unknown \o Hex(NumOf(p1 + 8))
        se == WordAt(p1 + 8, endianess)
    IN  (decoder = 3 /\ ZeroWords >= 1 /\ HasWord(p1 + 8))
        => /\ err # "Exception"
           /\ pc # "v3_pad"
           /\ pc = "v3_zero" => NumLeq(pos, NumOf(p1 + 4))
           /\ pc = "scan" =>
                /\ k1 # k2
                /\ DOMAIN layout =
                     {K_memsize, K_flashsize, K_struct_end, k1, k2}
                     \cup {K_mtd_start(i) : i \in 0..4}
                     \cup {K_mtd_length(i) : i \in 0..4}
                /\ layout[k1] = StrVal(Hex(WordAt(p1, endianess)))
                /\ layout[k2] = StrVal(Hex(WordAt(p1 + 4, endianess)))
                /\ layout[K_struct_end] = StrVal(Hex(se))
           /\ PastStructEnd =>
                /\ pointer_offset = NumSub(se, NumOf(320))
                /\ relative_last_data_position = Ones32
                /\ table_start = NumOf(p1 + 12)

\* Two zero words, a non-zero word and a zero word have been read, and the scan
\* of the table is about to start.
C6_Witness ==
    /\ decoder = 3
    /\ pc = "scan"
    /\ pointers = << >>
    /\ ZeroWords = 2
    /\ HasWord(V3ProbeAt + 16)
    /\ WordAt(V3ProbeAt + 12, endianess) = NumOf(0)
    /\ layout[K_unknown \o Hex(NumOf(V3ProbeAt + 16))] = StrVal(Hex(NumOf(0)))
    /\ pointer_offset = NumSub(WordAt(V3ProbeAt + 16, endianess), NumOf(320))

(***************************************************************************)
(* Reads at the end of the image                                           *)
(***************************************************************************)
\* C7: read_string always terminates: it returns the bytes before the first
\* 0x00 byte, and when the image ends before one it ends with an
\* UnterminatedString error, so it never goes round its loop holding the empty
\* read that marks the end of the image.
C7_ReadStringEndsAtEndOfImage ==
    pc \in {"rs_name", "rs_value"} => data # << >> \/ err = "UnterminatedString"

\* C8: every 4-byte read (the probe of identify_urlader, the version of
\* parse_urlader, the fields read by read_integer, the two halves of a pointer
\* record) consumes exactly 4 bytes and advances the cursor by 4, or fails with
\* TruncatedRead; no integer is built from fewer bytes.
C8_FourByteReads ==
    \/ err = "TruncatedRead"
    \/ /\ pc \in {"identify", "identified"} => Len(version_binary) = 4
       /\ endianess # "None" => Len(version) = 4
       /\ (decoder = 2 /\ pc # "v2") => table_start = NumAdd(offset, NumOf(36 + 4 * 19))
       /\ (decoder = 3 /\ pc = "v3_if") => pos = NumAdd(offset, NumOf(4 + 4 * 13))
       /\ (pc = "scan" /\ pointers # << >>) =>
            Len(value_bytes) = 4 /\ Len(name_bytes) = 4

\* C9: at every step of read_variable_pointers the list holds no record whose
\* value pointer and name pointer are both 0.
C9_NoZeroRecord ==
    \A i \in 1..Len(pointers) :
        ~(pointers[i].value = NumOf(0) /\ pointers[i].name = NumOf(0))

\* C10: for an image decoded as version 2 or 3, the dictionary parse_urlader
\* returns has version equal to the integer read from the version field,
\* whatever the variable table holds.
C10_VersionKept ==
    (result.returned /\ decoder \in {2, 3})
    => /\ K_version \in DOMAIN result.vars
       /\ result.vars[K_version].t = "int"
       /\ result.vars[K_version].v = FromBytes(version, endianess)

====
